---- MODULE Spec2Model ----
(***************************************************************************)
(* Static file server of nencyajudiya/Node.js-Intermediate.                *)
(*                                                                         *)
(* Two near-duplicate variants of one request pipeline are modelled:       *)
(*   "http"    - src/server.js           (http.createServer handler)       *)
(*   "express" - src/unnamed/part_001    (express app.use handler)         *)
(*                                                                         *)
(* Strings the code inspects character by character (request URLs, file    *)
(* paths, extensions, Accept-Encoding) are sequences of one-character      *)
(* strings.  Path arithmetic is Node's POSIX `path` module.                *)
(***************************************************************************)
EXTENDS Integers, Sequences, FiniteSets, TLC

VARIABLES
    impl,       \* which variant is running: "http" or "express"
    fs,         \* the file system: absolute path -> entry (see FsEntry)
    writes,     \* number of external writes done so far (bounded)
    pc,         \* position of the handler for the request in flight
    req,        \* the request in flight: url and the three headers consumed
    res,        \* the response: status, headers, body, head/end bookkeeping
    filePath,   \* handler local `filePath`
    stat,       \* handler local `stat` (snapshot of FileMetadata)
    stream,     \* the fs.ReadStream and optional compressor of the request
    trace,      \* per-request log of the paths handed to stat / readFile / createReadStream
    prev,       \* the preceding exchange when it was a 200 for the same URL
    crashed,    \* the process died of an uncaught exception
    parked,     \* the exchange of the other connection (see Switch)
    probe       \* two FileMetadata snapshots and their ETags (validator specification)

vars == <<impl, fs, writes, pc, req, res, filePath, stat, stream, trace, prev, crashed,
          parked, probe>>

----------------------------------------------------------------------------
(* Character-sequence helpers (String.prototype methods used by the code). *)

Null == <<>>            \* null / undefined / "": every falsy value the code tests for

RECURSIVE IndexOfFrom(_, _, _)
\* First position >= i of character c in s, 0 when there is none.
IndexOfFrom(s, c, i) ==
    IF i > Len(s) THEN 0
    ELSE IF s[i] = c THEN i
    ELSE IndexOfFrom(s, c, i + 1)

RECURSIVE LastIndexOfFrom(_, _, _)
\* Last position <= i of character c in s, 0 when there is none.
LastIndexOfFrom(s, c, i) ==
    IF i < 1 THEN 0
    ELSE IF s[i] = c THEN i
    ELSE LastIndexOfFrom(s, c, i - 1)

\* s.split(c)[0]
SplitFirst(s, c) ==
    LET i == IndexOfFrom(s, c, 1)
    IN  IF i = 0 THEN s ELSE SubSeq(s, 1, i - 1)

RECURSIVE SplitOn(_, _)
\* s.split(c)
SplitOn(s, c) ==
    LET i == IndexOfFrom(s, c, 1)
    IN  IF i = 0 THEN <<s>>
        ELSE <<SubSeq(s, 1, i - 1)>> \o SplitOn(SubSeq(s, i + 1, Len(s)), c)

\* s.startsWith(p)
StartsWith(s, p) ==
    /\ Len(p) <= Len(s)
    /\ SubSeq(s, 1, Len(p)) = p

\* s.includes(p)
Includes(s, p) ==
    \E i \in 1..(Len(s) - Len(p) + 1) : SubSeq(s, i, i + Len(p) - 1) = p

RECURSIVE StripLeading(_, _)
\* s with its leading run of character c removed
StripLeading(s, c) ==
    IF s # <<>> /\ s[1] = c THEN StripLeading(Tail(s), c) ELSE s

RECURSIVE StripTrailing(_, _)
\* s with its trailing run of character c removed
StripTrailing(s, c) ==
    IF s # <<>> /\ s[Len(s)] = c THEN StripTrailing(SubSeq(s, 1, Len(s) - 1), c) ELSE s

UpperCase == <<"A", "B", "C", "D", "E", "F", "G", "H", "I", "J", "K", "L", "M",
               "N", "O", "P", "Q", "R", "S", "T", "U", "V", "W", "X", "Y", "Z">>
LowerCase == <<"a", "b", "c", "d", "e", "f", "g", "h", "i", "j", "k", "l", "m",
               "n", "o", "p", "q", "r", "s", "t", "u", "v", "w", "x", "y", "z">>

\* s.toLowerCase()
ToLowerCase(s) ==
    [i \in 1..Len(s) |->
        IF \E k \in 1..26 : UpperCase[k] = s[i]
        THEN LowerCase[CHOOSE k \in 1..26 : UpperCase[k] = s[i]]
        ELSE s[i]]

----------------------------------------------------------------------------
(* Node's POSIX path module, as the code calls it.                         *)

Dot == <<".">>
DotDot == <<".", ".">>

RECURSIVE JoinSegs(_)
\* segments joined by "/"
JoinSegs(segs) ==
    IF segs = <<>> THEN <<>>
    ELSE IF Len(segs) = 1 THEN segs[1]
    ELSE segs[1] \o <<"/">> \o JoinSegs(Tail(segs))

RECURSIVE normalizeString(_, _, _)
\* path.posix normalizeString: resolves "." and ".." segments, drops empty
\* ones; ".." above the start is kept only when allowAboveRoot.
normalizeString(segs, allowAboveRoot, acc) ==
    IF segs = <<>> THEN acc
    ELSE LET seg == Head(segs)
             rest == Tail(segs)
         IN  IF seg = <<>> \/ seg = Dot
             THEN normalizeString(rest, allowAboveRoot, acc)
             ELSE IF seg = DotDot
             THEN IF acc # <<>> /\ acc[Len(acc)] # DotDot
                  THEN normalizeString(rest, allowAboveRoot, SubSeq(acc, 1, Len(acc) - 1))
                  ELSE IF allowAboveRoot
                  THEN normalizeString(rest, allowAboveRoot, Append(acc, DotDot))
                  ELSE normalizeString(rest, allowAboveRoot, acc)
             ELSE normalizeString(rest, allowAboveRoot, Append(acc, seg))

\* path.normalize(p)
normalize(p) ==
    IF p = <<>> THEN Dot
    ELSE LET isAbsolute == p[1] = "/"
             trailingSeparator == p[Len(p)] = "/"
             body == JoinSegs(normalizeString(SplitOn(p, "/"), ~isAbsolute, <<>>))
         IN  IF body = <<>>
             THEN IF isAbsolute THEN <<"/">>
                  ELSE IF trailingSeparator THEN <<".", "/">> ELSE Dot
             ELSE (IF isAbsolute THEN <<"/">> ELSE <<>>)
                  \o body
                  \o (IF trailingSeparator THEN <<"/">> ELSE <<>>)

\* path.join(a, b)
join(a, b) ==
    IF a = <<>> /\ b = <<>> THEN Dot
    ELSE IF b = <<>> THEN normalize(a)
    ELSE IF a = <<>> THEN normalize(b)
    ELSE normalize(a \o <<"/">> \o b)

\* path.extname(p)
extname(p) ==
    LET q == StripTrailing(p, "/")
        k == LastIndexOfFrom(q, "/", Len(q))
        base == SubSeq(q, k + 1, Len(q))
        d == LastIndexOfFrom(base, ".", Len(base))
    IN  IF d = 0 \/ d = 1 \/ base = DotDot THEN <<>>
        ELSE SubSeq(base, d, Len(base))

----------------------------------------------------------------------------
(* Module-level constants of the two source files.                         *)

\* __dirname of the running module (deployment dependent; one fixed value)
dirname == <<"/", "s", "r", "v">>

\* const publicDir = path.join(__dirname, "public")
publicDir == join(dirname, <<"p", "u", "b", "l", "i", "c">>)

sIndexHtml == <<"i", "n", "d", "e", "x", ".", "h", "t", "m", "l">>
sSlashIndexHtml == <<"/", "i", "n", "d", "e", "x", ".", "h", "t", "m", "l">>
sNotFoundHtml == <<"4", "0", "4", ".", "h", "t", "m", "l">>
sApiHealth == <<"/", "a", "p", "i", "/", "h", "e", "a", "l", "t", "h">>
sApiInfo == <<"/", "a", "p", "i", "/", "i", "n", "f", "o">>

TextHtml == "text/html; charset=utf-8"
TextPlain == "text/plain; charset=utf-8"
AppJson == "application/json; charset=utf-8"
OctetStream == "application/octet-stream"

\* const contentTypes = new Map([...])
contentTypes ==
    LET table == { <<<<".", "h", "t", "m", "l">>, TextHtml>>,
                   <<<<".", "c", "s", "s">>, "text/css; charset=utf-8">>,
                   <<<<".", "j", "s">>, "text/javascript; charset=utf-8">>,
                   <<<<".", "m", "j", "s">>, "text/javascript; charset=utf-8">>,
                   <<<<".", "j", "s", "o", "n">>, AppJson>>,
                   <<<<".", "s", "v", "g">>, "image/svg+xml">>,
                   <<<<".", "p", "n", "g">>, "image/png">>,
                   <<<<".", "j", "p", "g">>, "image/jpeg">>,
                   <<<<".", "j", "p", "e", "g">>, "image/jpeg">>,
                   <<<<".", "g", "i", "f">>, "image/gif">>,
                   <<<<".", "i", "c", "o">>, "image/x-icon">>,
                   <<<<".", "w", "e", "b", "p">>, "image/webp">> }
    IN  [ext \in {e[1] : e \in table} |-> (CHOOSE e \in table : e[1] = ext)[2]]

----------------------------------------------------------------------------
(* The pure functions of the source.                                       *)

\* .replace(/^\\+|^\/+/, ""): one match at the start of the string, a run of
\* backslashes if it starts with one, else a run of slashes.
StripLeadingSeparators(s) ==
    IF s # <<>> /\ s[1] = "\\" THEN StripLeading(s, "\\") ELSE StripLeading(s, "/")

\* Mutant of safeResolveFromPublic: the query string is not removed.
safeResolve_KeepQuery(requestUrl) ==
    LET urlPath == SplitFirst(requestUrl, "#")
        rawPath == IF urlPath = <<"/">> THEN sSlashIndexHtml ELSE urlPath
        normalizedPath == StripLeadingSeparators(normalize(rawPath))
        resolved == join(publicDir, normalizedPath)
    IN  IF ~StartsWith(resolved, publicDir) THEN Null ELSE resolved

\* function safeResolveFromPublic(requestUrl): the resolved path, or Null
safeResolveFromPublic(requestUrl) ==
    LET urlPath == SplitFirst(SplitFirst(requestUrl, "?"), "#")
        rawPath == IF urlPath = <<"/">> THEN sSlashIndexHtml ELSE urlPath
        normalizedPath == StripLeadingSeparators(normalize(rawPath))
        resolved == join(publicDir, normalizedPath)
    IN  IF ~StartsWith(resolved, publicDir) THEN Null ELSE resolved

\* Mutant of getContentType: the extension is looked up as spelled.
getContentType_CaseSensitive(path) ==
    LET ext == extname(path)
    IN  IF ext \in DOMAIN contentTypes THEN contentTypes[ext] ELSE OctetStream

\* function getContentType(filePath)
getContentType(path) ==
    LET ext == ToLowerCase(extname(path))
    IN  IF ext \in DOMAIN contentTypes THEN contentTypes[ext] ELSE OctetStream

\* crypto.createHash("sha1").update(s).digest("hex"), taken as injective
Sha1Hex(s) == <<"sha1">> \o s

\* Number-to-string conversion of a template literal (non-negative integers)
DigitChars == <<"0", "1", "2", "3", "4", "5", "6", "7", "8", "9">>

RECURSIVE Digits(_)

Digits(n) ==
    IF n < 10 THEN <<DigitChars[n + 1]>>
    ELSE Digits(n \div 10) \o <<DigitChars[(n % 10) + 1]>>

\* Mutant of computeEtag: the three numbers are concatenated without "-".
computeEtag_NoSeparators(st) ==
    <<"W/">> \o Sha1Hex(Digits(st.ino) \o Digits(st.size) \o Digits(st.mtimeMs))

\* function computeEtag(stat): 'W/"' + sha1(`${ino}-${size}-${mtimeMs}`) + '"'
computeEtag(st) ==
    LET etagBase == Digits(st.ino) \o <<"-">> \o Digits(st.size) \o <<"-">> \o Digits(st.mtimeMs)
    IN  <<"W/">> \o Sha1Hex(etagBase)

\* stat.mtime.toUTCString(): an HTTP date, which has whole seconds only
toUTCString(mtimeMs) == <<"utc", mtimeMs \div 1000>>

NoCompression == "none"

\* Mutant of selectCompression: gzip is tried before brotli.
selectCompression_GzipFirst(acceptEncoding) ==
    IF acceptEncoding = <<>> THEN NoCompression
    ELSE IF Includes(acceptEncoding, <<"g", "z", "i", "p">>) THEN "gzip"
    ELSE IF Includes(acceptEncoding, <<"b", "r">>) THEN "br"
    ELSE IF Includes(acceptEncoding, <<"d", "e", "f", "l", "a", "t", "e">>) THEN "deflate"
    ELSE NoCompression

\* function selectCompression(acceptEncoding): the `enc` of the result, or
\* NoCompression for null
selectCompression(acceptEncoding) ==
    IF acceptEncoding = <<>> THEN NoCompression
    ELSE IF Includes(acceptEncoding, <<"b", "r">>) THEN "br"
    ELSE IF Includes(acceptEncoding, <<"g", "z", "i", "p">>) THEN "gzip"
    ELSE IF Includes(acceptEncoding, <<"d", "e", "f", "l", "a", "t", "e">>) THEN "deflate"
    ELSE NoCompression

\* contentType.startsWith("text/html"), over the values getContentType yields
StartsWithTextHtml(contentType) == contentType = TextHtml

----------------------------------------------------------------------------
(* The file system the server runs on.                                     *)

pIndex == join(publicDir, sIndexHtml)               \* public/index.html
pNotFound == join(publicDir, sNotFoundHtml)         \* public/404.html
pPng == join(publicDir, <<"a", ".", "p", "n", "g">>)                    \* public/a.png
pLogo == join(publicDir, <<"L", "O", "G", "O", ".", "P", "N", "G">>)                \* public/LOGO.PNG
pNotes == join(publicDir, <<"n", "o", "t", "e", "s">>)                  \* public/notes (no extension)
pDocs == join(publicDir, <<"d", "o", "c", "s">>)                    \* public/docs/
pDocsIndex == join(pDocs, sIndexHtml)               \* public/docs/index.html/ (a directory)
pSibling == join(dirname, <<"p", "u", "b", "l", "i", "c", "2">>)                \* a sibling of public whose name starts with "public"
pSiblingIndex == join(pSibling, sIndexHtml)         \* public2/index.html
pSiblingFile == join(pSibling, <<"x", ".", "j", "s">>)              \* public2/x.js

FsPaths == {dirname, publicDir, pIndex, pNotFound, pPng, pLogo, pNotes, pDocs,
            pDocsIndex, pSibling, pSiblingIndex, pSiblingFile}

NoEntry == [kind |-> "none", ino |-> 0, size |-> 0, mtimeMs |-> 0]
File(i, s, m) == [kind |-> "file", ino |-> i, size |-> s, mtimeMs |-> m]
\* stat.size of a directory: one block of the file system
DirSize == 4096
Dir(i, m) == [kind |-> "dir", ino |-> i, size |-> DirSize, mtimeMs |-> m]

\* The tree at start-up; index.html and 404.html may or may not be there.
InitialFs(hasIndex, has404) ==
    [p \in FsPaths |->
        CASE p = dirname -> Dir(1, 1000)
          [] p = publicDir -> Dir(2, 1000)
          [] p = pIndex -> IF hasIndex THEN File(3, 3, 1000) ELSE NoEntry
          [] p = pNotFound -> IF has404 THEN File(4, 2, 1000) ELSE NoEntry
          [] p = pPng -> File(5, 4, 2000)
          [] p = pLogo -> File(6, 4, 2000)
          [] p = pNotes -> File(7, 1, 3000)
          [] p = pDocs -> Dir(8, 1000)
          [] p = pDocsIndex -> Dir(9, 1000)
          [] p = pSibling -> Dir(10, 1000)
          [] p = pSiblingIndex -> File(11, 2, 4000)
          [] p = pSiblingFile -> File(12, 2, 4000)]

\* The entry a path names: a trailing "/" names the same entry, and only a
\* directory can be named that way (ENOTDIR otherwise).
EntryAt(f, path) ==
    LET q == IF StripTrailing(path, "/") = <<>> THEN <<"/">> ELSE StripTrailing(path, "/")
        e == IF q \in DOMAIN f THEN f[q] ELSE NoEntry
    IN  IF q # path /\ e.kind = "file" THEN NoEntry ELSE e

NoStat == [ok |-> FALSE, ino |-> 0, size |-> 0, mtimeMs |-> 0, isDir |-> FALSE]

\* fs.promises.stat(path): ok = FALSE stands for the rejected promise
StatOf(f, path) ==
    LET e == EntryAt(f, path)
    IN  IF e.kind = "none" THEN NoStat
        ELSE [ok |-> TRUE, ino |-> e.ino, size |-> e.size, mtimeMs |-> e.mtimeMs,
              isDir |-> e.kind = "dir"]

----------------------------------------------------------------------------
(* Requests and responses.                                                 *)

NoHeader == <<>>    \* an absent header (undefined); also the empty string

HeaderNames == {"Content-Type", "Content-Length", "Content-Encoding",
                "Cache-Control", "ETag", "Last-Modified"}

EmptyHeaders == [h \in HeaderNames |-> NoHeader]

NoBody == [kind |-> "none", text |-> "", file |-> <<>>, len |-> 0]
TextBody(t, n) == [kind |-> "text", text |-> t, file |-> <<>>, len |-> n]
BufferBody(path, n) == [kind |-> "buffer", text |-> "", file |-> path, len |-> n]
StreamBody(path) == [kind |-> "stream", text |-> "", file |-> path, len |-> 0]

\* status 0: nothing decided yet.  headSent: the head has been rendered
\* (res.headersSent).  ended: res.end() was called.  sent: body bytes written.
\* heads: how many times the code has written the head or asked to
\* (writeHead, send, the first write of a pipe).  closed: the connection
\* went away before the response was ended; what the code writes to the
\* response afterwards is discarded.
NoResponse == [status |-> 0, headers |-> EmptyHeaders, body |-> NoBody,
               headSent |-> FALSE, ended |-> FALSE, sent |-> 0,
               heads |-> 0, closed |-> FALSE]

NoRequest == [url |-> <<>>, inm |-> NoHeader, ims |-> NoHeader, ae |-> NoHeader]

\* state: of the fs.ReadStream; enc: the compression chosen; comp: state of
\* the zlib stream ("open", "ended" once end() was called on it, "closed"
\* once it has flushed and released its handle); failed: the read stream
\* emitted "error"; flowing: the read stream emits what it reads to its pipe;
\* reading: it has a read under way or to come (a paused stream goes on
\* reading into its buffer); read: file bytes the read stream has emitted.
NoStream == [state |-> "none", path |-> <<>>, enc |-> NoCompression, comp |-> "none",
             failed |-> FALSE, flowing |-> FALSE, reading |-> FALSE, read |-> 0]

NoPrev == [has |-> FALSE, url |-> <<>>, etag |-> NoHeader, lm |-> NoHeader,
           file |-> <<>>, meta |-> NoStat]

\* The state of one exchange: the handler's position and locals, the
\* response, the streams, and what the client of the connection holds.
NoExchange == [pc |-> "idle", req |-> NoRequest, res |-> NoResponse, filePath |-> <<>>,
               stat |-> NoStat, stream |-> NoStream, trace |-> <<>>, prev |-> NoPrev]

\* res.writeHead(status, headers); res.end(body)   (src/server.js).  On a
\* response the client has closed the head counts as sent and the response
\* as ended, and the body is discarded.
HttpReply(status, hdrs, body) ==
    [status |-> status,
     headers |-> [h \in HeaderNames |-> IF h \in DOMAIN hdrs THEN hdrs[h] ELSE NoHeader],
     body |-> body, headSent |-> TRUE, ended |-> TRUE,
     sent |-> IF res.closed THEN 0 ELSE body.len,
     heads |-> 1, closed |-> res.closed]

\* res.status(status)[.type(...)].send(body) on a response whose head is not
\* sent (express): headers set earlier stay; Content-Type defaults to html
\* for a string body; Content-Length is the body's; an ETag of the body is
\* added unless one is set.
ExpressSend(r, status, body) ==
    [status |-> status,
     headers |-> [h \in HeaderNames |->
        CASE h = "Content-Type" ->
                IF r.headers[h] # NoHeader THEN r.headers[h]
                ELSE IF body.kind = "text" THEN <<TextHtml>> ELSE <<OctetStream>>
          [] h = "Content-Length" -> <<body.len>>
          [] h = "ETag" ->
                IF r.headers[h] # NoHeader THEN r.headers[h]
                ELSE <<"W/", "body", body.kind, body.text, body.file>>
          [] OTHER -> r.headers[h]],
     body |-> body, headSent |-> TRUE, ended |-> TRUE,
     sent |-> IF r.closed THEN 0 ELSE body.len,
     heads |-> r.heads + 1, closed |-> r.closed]

\* res.set(field, value) / headers[field] = value
SetHeader(r, h, v) == [r EXCEPT !.headers[h] = v]

----------------------------------------------------------------------------
(* Bounds and input sets.                                                  *)

MaxWrites == 1      \* external writes to the served file per behaviour
MaxSegs == 2        \* path segments of a generated request URL

\* Request URLs of the pipeline specification: one or more of each kind.
uRoot == <<"/">>
uRootQuery == <<"/", "?", "v", "=", "1">>
uRootFragment == <<"/", "#", "t", "o", "p">>
uPng == <<"/", "a", ".", "p", "n", "g">>
uLogo == <<"/", "L", "O", "G", "O", ".", "P", "N", "G">>
uNotes == <<"/", "n", "o", "t", "e", "s">>
uDocs == <<"/", "d", "o", "c", "s">>
uMissing == <<"/", "m", "i", "s", "s", "i", "n", "g", ".", "c", "s", "s">>
\* /../../etc/passwd
uTraversal ==
    <<"/", ".", ".", "/", ".", ".", "/", "e", "t", "c", "/", "p", "a", "s", "s", "w", "d">>
\* http://h/../../../etc/passwd (a request target in absolute form)
uTraversalAbsolute ==
    <<"h", "t", "t", "p", ":", "/", "/", "h", "/", ".", ".", "/", ".", ".">>
    \o <<"/", ".", ".", "/", "e", "t", "c", "/", "p", "a", "s", "s", "w", "d">>
\* http://h/../../../public2/x.js (a request target in absolute form)
uSibling ==
    <<"h", "t", "t", "p", ":", "/", "/", "h", "/", ".", ".", "/", ".", ".">>
    \o <<"/", ".", ".", "/", "p", "u", "b", "l", "i", "c", "2", "/", "x", ".", "j", "s">>

RequestUrls ==
    { uRoot, uRootQuery, uRootFragment, uPng, uLogo, uNotes, uDocs, uMissing,
      uTraversal, uTraversalAbsolute, uSibling, sApiHealth }

\* Request URLs of the path specification: every lead, at most MaxSegs
\* segments joined by "/", every suffix.  A request target reaches the handler
\* in origin form (it starts with "/") or in absolute form (scheme://host/).
UrlLeads ==
    { <<"/">>,
      <<"h", "t", "t", "p", ":", "/", "/", "h", "/">>,
      <<"h", "t", "t", "p", ":", "/", "/", "h", "/", ".", ".", "/", ".", ".", "/">> }
UrlSegments == { DotDot, Dot, <<>>, <<"e", "t", "c">>, <<"d", "o", "c", "s">>, <<"a", ".", "p", "n", "g">>, <<"p", "u", "b", "l", "i", "c", "2">>, sIndexHtml }
UrlSuffixes == { <<>>, <<"?", "v", "=", "1">>, <<"#", "t", "o", "p">> }
GeneratedUrls ==
    { lead \o JoinSegs(segs) \o suffix :
        lead \in UrlLeads,
        segs \in UNION { [1..n -> UrlSegments] : n \in 0..MaxSegs },
        suffix \in UrlSuffixes }

\* Requests that overlap in time are explored for these URLs, without
\* optional headers.
OverlapUrls == { uRoot, uPng, uDocs }

AcceptEncodings ==
    { <<>>,
      <<"g", "z", "i", "p">>,
      <<"b", "r">>,
      <<"g", "z", "i", "p", ",", " ", "b", "r">>,
      <<"d", "e", "f", "l", "a", "t", "e">>,
      <<"d", "e", "f", "l", "a", "t", "e", ",", " ", "g", "z", "i", "p">>,
      <<"i", "d", "e", "n", "t", "i", "t", "y">> }

Star == <<"*">>
LaterDate == <<"utc", 9>>                 \* a date after every mtime, HTTP format

\* Metadata of the validator specification: numbers of one and two digits
\* that share digits, so that concatenations can collide.
ProbeNumbers == {1, 2, 11, 12, 21}
ProbeMetadata ==
    { [ok |-> TRUE, ino |-> i, size |-> s, mtimeMs |-> m, isDir |-> FALSE] :
        i \in {1, 11}, s \in ProbeNumbers, m \in ProbeNumbers }
NoProbe == [a |-> NoStat, b |-> NoStat, done |-> FALSE, etagA |-> NoHeader,
            etagA2 |-> NoHeader, etagB |-> NoHeader]

\* The validators a client may send: none; a date that matches nothing; and,
\* when it holds a 200 response for the same URL, what that response carried
\* or the wildcard.
InmChoices(p) == {NoHeader} \cup (IF p.has THEN {p.etag, Star} ELSE {})
ImsChoices(p) == {NoHeader, LaterDate} \cup (IF p.has THEN {p.lm} ELSE {})

----------------------------------------------------------------------------
(* The handler, cut at its suspension points.                              *)

Init ==
    /\ impl \in {"http", "express"}
    /\ \E hasIndex \in BOOLEAN, has404 \in BOOLEAN : fs = InitialFs(hasIndex, has404)
    /\ writes = 0
    /\ pc = "idle"
    /\ req = NoRequest
    /\ res = NoResponse
    /\ filePath = <<>>
    /\ stat = NoStat
    /\ stream = NoStream
    /\ trace = <<>>
    /\ prev = NoPrev
    /\ crashed = FALSE
    /\ parked = NoExchange
    /\ probe = NoProbe

\* The validator specification starts from any two metadata snapshots.
InitEtag ==
    /\ impl = "http"
    /\ fs = InitialFs(TRUE, TRUE)
    /\ writes = 0
    /\ pc = "idle"
    /\ req = NoRequest
    /\ res = NoResponse
    /\ filePath = <<>>
    /\ stat = NoStat
    /\ stream = NoStream
    /\ trace = <<>>
    /\ prev = NoPrev
    /\ crashed = FALSE
    /\ parked = NoExchange
    /\ \E a \in ProbeMetadata, b \in ProbeMetadata :
          probe = [a |-> a, b |-> b, done |-> FALSE, etagA |-> NoHeader,
                   etagA2 |-> NoHeader, etagB |-> NoHeader]

\* Mutant of isFresh: both validators must match.
isFresh_BothMustMatch(r, etag, lastModified) == r.inm = etag /\ r.ims = lastModified

\* Mutant of isFresh: If-Modified-Since is compared as a date.
isFresh_DateComparison(r, etag, lastModified) ==
    r.inm = etag \/ (r.ims # NoHeader /\ r.ims[2] >= lastModified[2])

\* if (req.headers["if-none-match"] === etag ||
\*     req.headers["if-modified-since"] === lastModified)
isFresh(r, etag, lastModified) == r.inm = etag \/ r.ims = lastModified

\* Mutant of CacheControlFor: every type is cached like an asset.
CacheControlFor_AlwaysPublic(contentType) == <<"public, max-age=3600, immutable">>

\* Cache static assets for 1 hour, but not HTML
CacheControlFor(contentType) ==
    IF StartsWithTextHtml(contentType) THEN <<"no-cache">>
    ELSE <<"public, max-age=3600, immutable">>

\* Content-Type, Last-Modified, ETag and Cache-Control of a 200
SuccessHeaders(contentType, etag, lastModified) ==
    [h \in HeaderNames |->
        CASE h = "Content-Type" -> <<contentType>>
          [] h = "Last-Modified" -> lastModified
          [] h = "ETag" -> etag
          [] h = "Cache-Control" -> CacheControlFor(contentType)
          [] OTHER -> NoHeader]

\* Mutant of BodyHeaders: Content-Length is set on the compressed path too.
BodyHeaders_AlwaysLength(hdrs, compression, st) ==
    IF compression # NoCompression
    THEN [hdrs EXCEPT !["Content-Encoding"] = <<compression>>,
                      !["Content-Length"] = <<st.size>>]
    ELSE [hdrs EXCEPT !["Content-Length"] = <<st.size>>]

\* if (compression) Content-Encoding = compression.enc
\* else             Content-Length = stat.size
BodyHeaders(hdrs, compression, st) ==
    IF compression # NoCompression
    THEN [hdrs EXCEPT !["Content-Encoding"] = <<compression>>]
    ELSE [hdrs EXCEPT !["Content-Length"] = <<st.size>>]

\* GET /api/health (and /api/info in the express variant): a JSON body
IsApiRoute(url) ==
    IF impl = "http" THEN url = sApiHealth
    ELSE SplitFirst(url, "?") \in {sApiHealth, sApiInfo}

ApiReply ==
    IF impl = "http"
    THEN HttpReply(200, [h \in {"Content-Type", "Cache-Control", "Content-Length"} |->
                            CASE h = "Content-Type" -> <<AppJson>>
                              [] h = "Cache-Control" -> <<"no-store">>
                              [] h = "Content-Length" -> <<1>>],
                   [kind |-> "json", text |-> "health", file |-> <<>>, len |-> 1])
    ELSE ExpressSend(SetHeader(NoResponse, "Content-Type", <<AppJson>>), 200,
                     [kind |-> "json", text |-> "api", file |-> <<>>, len |-> 1])

\* 400 Bad Request
BadRequestReply ==
    IF impl = "http"
    THEN HttpReply(400, [h \in {"Content-Type"} |-> <<TextPlain>>], TextBody("Bad Request", 11))
    ELSE ExpressSend(NoResponse, 400, TextBody("Bad Request", 11))

\* The code from the top of the handler to its first await: the API route,
\* RESOLVE, and the call of fs.promises.stat.
Receive(r, p) ==
    /\ ~crashed
    /\ pc = "idle"
    /\ req' = r
    /\ prev' = p
    /\ stat' = NoStat
    /\ stream' = NoStream
    /\ IF IsApiRoute(r.url)
       THEN /\ res' = ApiReply
            /\ filePath' = <<>>
            /\ trace' = <<>>
            /\ pc' = "done"
       ELSE LET resolvedPath ==
                    safeResolveFromPublic(IF impl = "http" /\ r.url = <<>> THEN <<"/">> ELSE r.url)
            IN  IF resolvedPath = Null
                THEN /\ res' = BadRequestReply
                     /\ filePath' = <<>>
                     /\ trace' = <<>>
                     /\ pc' = "done"
                ELSE /\ res' = NoResponse
                     /\ filePath' = resolvedPath
                     /\ trace' = << <<"stat", resolvedPath>> >>
                     /\ pc' = "stat"
    /\ UNCHANGED <<probe, parked, impl, fs, writes, crashed>>

\* What a client holds for a URL: the validators of the last exchange when
\* that was a complete 200 file response for the same URL.
PrevFor(url) == IF prev.has /\ prev.url = url THEN prev ELSE NoPrev

\* The request may overlap with another one (see OverlapUrls).
PlainRequest(r) ==
    /\ r.url \in OverlapUrls
    /\ r.inm = NoHeader
    /\ r.ims = NoHeader
    /\ r.ae = NoHeader

\* A request arrives (pipeline specification), possibly while the request
\* of the other connection is in flight.
NewRequest ==
    \E url \in RequestUrls :
        LET p == PrevFor(url)
        IN  \E inm \in InmChoices(p), ims \in ImsChoices(p), ae \in AcceptEncodings :
                LET r == [url |-> url, inm |-> inm, ims |-> ims, ae |-> ae]
                IN  /\ parked.pc # "idle" => PlainRequest(r)
                    /\ Receive(r, p)

\* A request without optional headers arrives (path specification); the
\* server takes one whatever the requests before it were.
NewPathRequest ==
    \E url \in GeneratedUrls :
          /\ parked.pc # "idle" => url \in OverlapUrls
          /\ Receive([url |-> url, inm |-> NoHeader, ims |-> NoHeader, ae |-> NoHeader], NoPrev)

\* Mutant of NotModifiedReply: the 304 carries a Cache-Control header.
NotModifiedReply_WithCacheControl(r) ==
    [r EXCEPT !.status = 304, !.headers["Cache-Control"] = <<"no-cache">>,
              !.headSent = TRUE, !.ended = TRUE, !.heads = r.heads + 1]

\* res.writeHead(304); res.end()   /   res.status(304).end()
NotModifiedReply(r) ==
    [r EXCEPT !.status = 304, !.headSent = TRUE, !.ended = TRUE, !.heads = r.heads + 1]

\* Mutant of Serve: the file is opened and the compressor created before
\* the cache check.
Serve_OpenBeforeCheck(path, st) ==
    LET contentType == getContentType(path)
        etag == computeEtag(st)
        lastModified == toUTCString(st.mtimeMs)
        compression == selectCompression(req.ae)
        headers == BodyHeaders(SuccessHeaders(contentType, etag, lastModified),
                               compression, st)
    IN  /\ stream' = [state |-> "opening", path |-> path, enc |-> compression,
                      comp |-> IF compression # NoCompression THEN "open" ELSE "none",
                      failed |-> FALSE, flowing |-> TRUE, reading |-> TRUE, read |-> 0]
        /\ trace' = Append(trace, <<"createReadStream", path>>)
        /\ IF isFresh(req, etag, lastModified)
           THEN /\ res' = NotModifiedReply(res)
                /\ pc' = "done"
           ELSE /\ res' = [res EXCEPT !.status = 200, !.headers = headers,
                                      !.body = StreamBody(path),
                                      !.headSent = (impl = "http"),
                                      !.heads = IF impl = "http" THEN 1 ELSE 0]
                /\ pc' = "streaming"

\* The code after STAT succeeded, up to the end of the handler's synchronous
\* run: CACHE_CHECK, then either the 304 or BUILD_RESPONSE and the opening
\* of the read stream.  The http variant renders the 200 head here
\* (res.writeHead); the express variant only sets headers, and the head is
\* rendered when the first byte or the end reaches the response.
Serve(path, st) ==
    LET contentType == getContentType(path)
        etag == computeEtag(st)
        lastModified == toUTCString(st.mtimeMs)
        compression == selectCompression(req.ae)
        headers == BodyHeaders(SuccessHeaders(contentType, etag, lastModified),
                               compression, st)
    IN  IF isFresh(req, etag, lastModified)
        THEN /\ res' = NotModifiedReply(res)
             /\ stream' = NoStream
             /\ trace' = trace
             /\ pc' = "done"
        ELSE /\ res' = [res EXCEPT !.status = 200, !.headers = headers,
                                   !.body = StreamBody(path),
                                   !.headSent = (impl = "http"),
                                   !.heads = IF impl = "http" THEN 1 ELSE 0]
             /\ stream' = [state |-> "opening", path |-> path, enc |-> compression,
                           comp |-> IF compression # NoCompression THEN "open" ELSE "none",
                           failed |-> FALSE, flowing |-> TRUE, reading |-> TRUE, read |-> 0]
             /\ trace' = Append(trace, <<"createReadStream", path>>)
             /\ pc' = "streaming"

\* stat = await fs.promises.stat(filePath) settles.
StatDone ==
    /\ ~crashed
    /\ pc = "stat"
    /\ LET st == StatOf(fs, filePath)
       IN  IF ~st.ok
           THEN /\ pc' = "notfound"
                /\ trace' = Append(trace, <<"readFile", pNotFound>>)
                /\ UNCHANGED <<filePath, stat, res, stream>>
           ELSE IF st.isDir
           THEN /\ filePath' = join(filePath, sIndexHtml)
                /\ stat' = st
                /\ trace' = Append(trace, <<"stat", join(filePath, sIndexHtml)>>)
                /\ pc' = "stat_index"
                /\ UNCHANGED <<res, stream>>
           ELSE /\ stat' = st
                /\ Serve(filePath, st)
                /\ UNCHANGED filePath
    /\ UNCHANGED <<probe, parked, impl, fs, writes, req, prev, crashed>>

\* The second stat, of <directory>/index.html, settles.
StatIndexDone ==
    /\ ~crashed
    /\ pc = "stat_index"
    /\ LET st == StatOf(fs, filePath)
       IN  IF ~st.ok
           THEN /\ pc' = "notfound"
                /\ trace' = Append(trace, <<"readFile", pNotFound>>)
                /\ UNCHANGED <<stat, res, stream>>
           ELSE /\ stat' = st
                /\ Serve(filePath, st)
    /\ UNCHANGED <<probe, parked, impl, fs, writes, req, filePath, prev, crashed>>

\* The two 404 replies: the custom page when 404.html was read (nf is its
\* entry), the generic message when the read failed.
NotFoundReply(nf) ==
    IF nf.kind = "file"
    THEN IF impl = "http"
         THEN HttpReply(404, [h \in {"Content-Type"} |-> <<TextHtml>>],
                        BufferBody(pNotFound, nf.size))
         ELSE ExpressSend(SetHeader(res, "Content-Type", <<TextHtml>>),
                          404, BufferBody(pNotFound, nf.size))
    ELSE IF impl = "http"
         THEN HttpReply(404, [h \in {"Content-Type"} |-> <<TextPlain>>],
                        TextBody("404 Not Found", 13))
         ELSE ExpressSend(res, 404, TextBody("404 Not Found", 13))

\* await fs.promises.readFile(notFoundPath) settles.
NotFoundDone ==
    /\ ~crashed
    /\ pc = "notfound"
    /\ res' = NotFoundReply(EntryAt(fs, pNotFound))
    /\ pc' = "done"
    /\ UNCHANGED <<probe, parked, impl, fs, writes, req, filePath, stat, stream, trace, prev, crashed>>

----------------------------------------------------------------------------
(* Events of the pipe: read stream -> [compressor ->] response.            *)

\* Bytes a fresh gzip or deflate stream puts out as soon as it has processed
\* its first input (the format's header); Brotli puts out nothing before it
\* is ended.
HeaderLength(enc) ==
    CASE enc = "gzip" -> 10
      [] enc = "deflate" -> 2
      [] OTHER -> 0

\* Lengths the whole compressed output may have for n bytes of input, n
\* small; which one depends on the bytes of the file.  gzip and deflate: the
\* format's header and trailer around one final block that holds at least
\* the block header and the end-of-block code and at most n nine-bit
\* literals besides.  Brotli: at most the n bytes in an uncompressed
\* meta-block.
CompressedLengths(enc, n) ==
    CASE enc = "gzip" -> { 10 + b + 8 : b \in 2..((3 + 9 * n + 7 + 7) \div 8) }
      [] enc = "deflate" -> { 2 + b + 4 : b \in 2..((3 + 9 * n + 7 + 7) \div 8) }
      [] enc = "br" -> IF n = 0 THEN {1} ELSE 2..(n + 4)
      [] OTHER -> {n}

\* res.write(chunk) by a pipe: the head is rendered if it was not, the bytes
\* follow.  On a response that is closed or ended the write is discarded.
WriteToRes(r, n) ==
    IF r.closed \/ r.ended THEN r
    ELSE [r EXCEPT !.headSent = TRUE, !.sent = @ + n,
                   !.heads = IF r.headSent THEN @ ELSE @ + 1]

\* res.end() by a pipe
EndRes(r) ==
    IF r.ended THEN r
    ELSE [r EXCEPT !.headSent = TRUE, !.ended = TRUE,
                   !.heads = IF r.headSent THEN @ ELSE @ + 1]

\* The compressor has taken input and its header has not reached the
\* response yet.
HeaderDue(s, r) ==
    /\ s.comp \in {"open", "ended"}
    /\ s.read > 0
    /\ HeaderLength(s.enc) > 0
    /\ r.sent = 0

\* An event of the request is still to come: the open of the file or its
\* failure; a read of the file; output of the compressor while the response
\* takes it.
Pending(s, r) ==
    \/ s.state = "opening"
    \/ s.state = "open" /\ s.reading
    \/ /\ ~r.closed
       /\ ~r.ended
       /\ (s.comp = "ended" \/ HeaderDue(s, r))

\* "done" once nothing more will happen for the request
PcAfter(s, r) == IF Pending(s, r) THEN "streaming" ELSE "done"

\* The file is opened (the open of a directory succeeds too).
StreamOpen ==
    /\ ~crashed
    /\ pc = "streaming"
    /\ stream.state = "opening"
    /\ EntryAt(fs, stream.path).kind # "none"
    /\ LET s2 == [stream EXCEPT !.state = "open"]
       IN  /\ stream' = s2
           /\ pc' = PcAfter(s2, res)
    /\ UNCHANGED <<probe, parked, impl, fs, writes, req, res, filePath, stat, trace, prev, crashed>>

\* The read stream emits a chunk and the pipe writes it to its destination:
\* the response, or the compressor when there is one (nothing reaches the
\* response at this point then).  A response that is closed refuses the
\* write, and the pipe pauses the read stream for a "drain" that never comes.
StreamData ==
    /\ ~crashed
    /\ pc = "streaming"
    /\ stream.state = "open"
    /\ stream.flowing
    /\ EntryAt(fs, stream.path).kind = "file"
    /\ EntryAt(fs, stream.path).size > stream.read
    /\ LET size == EntryAt(fs, stream.path).size
           r2 == IF stream.comp = "none" THEN WriteToRes(res, size - stream.read) ELSE res
           s2 == [stream EXCEPT !.read = size,
                                !.flowing = (stream.comp # "none" \/ ~res.closed)]
       IN  /\ res' = r2
           /\ stream' = s2
           /\ pc' = PcAfter(s2, r2)
    /\ UNCHANGED <<probe, parked, impl, fs, writes, req, filePath, stat, trace, prev, crashed>>

\* End of file: the pipe calls end() on its destination, the response or the
\* compressor, and the read stream closes its descriptor.
StreamEnd ==
    /\ ~crashed
    /\ pc = "streaming"
    /\ stream.state = "open"
    /\ stream.flowing
    /\ EntryAt(fs, stream.path).kind = "file"
    /\ EntryAt(fs, stream.path).size <= stream.read
    /\ LET r2 == IF stream.comp = "none" THEN EndRes(res) ELSE res
           s2 == [stream EXCEPT !.state = "closed", !.flowing = FALSE, !.reading = FALSE,
                                !.comp = IF stream.comp = "open" THEN "ended" ELSE @]
       IN  /\ res' = r2
           /\ stream' = s2
           /\ pc' = PcAfter(s2, r2)
    /\ UNCHANGED <<probe, parked, impl, fs, writes, req, filePath, stat, trace, prev, crashed>>

\* The compressor has processed its first input and its header reaches the
\* response (gzip, deflate), before or after the read stream's end.
CompressorData ==
    /\ ~crashed
    /\ pc = "streaming"
    /\ HeaderDue(stream, res)
    /\ ~res.closed
    /\ ~res.ended
    /\ LET r2 == WriteToRes(res, HeaderLength(stream.enc))
       IN  /\ res' = r2
           /\ pc' = PcAfter(stream, r2)
    /\ UNCHANGED <<probe, parked, impl, fs, writes, req, filePath, stat, stream, trace, prev, crashed>>

\* The ended compressor flushes: the rest of its output reaches the response
\* (all of it for Brotli and for an empty input), the pipe ends the response
\* and the compressor releases its handle.
CompressorEnd ==
    /\ ~crashed
    /\ pc = "streaming"
    /\ stream.comp = "ended"
    /\ ~HeaderDue(stream, res)
    /\ ~res.closed
    /\ ~res.ended
    /\ \E total \in CompressedLengths(stream.enc, stream.read) :
          LET r2 == EndRes(WriteToRes(res, total - res.sent))
              s2 == [stream EXCEPT !.comp = "closed"]
          IN  /\ res' = r2
              /\ stream' = s2
              /\ pc' = PcAfter(s2, r2)
    /\ UNCHANGED <<probe, parked, impl, fs, writes, req, filePath, stat, trace, prev, crashed>>

\* readStream.on("error", ...): the open or a read fails (always for a
\* directory: EISDIR; for a file whenever the storage fails).
\*   http:    res.writeHead(500, ...) after res.writeHead(200, ...) throws
\*            ERR_HTTP_HEADERS_SENT inside the listener: the process dies.
\*   express: res.status(500).send("Server Error"): a 500 that keeps the
\*            headers set for the 200 when the head is not sent yet; when it
\*            is, send() throws inside the listener and the process dies.
\* Neither depends on the connection still being there, nor on the read
\* stream being piped still.
StreamError ==
    /\ ~crashed
    /\ pc = "streaming"
    /\ \/ stream.state = "opening"
       \/ stream.state = "open" /\ stream.reading
    /\ LET s2 == [stream EXCEPT !.state = "closed", !.failed = TRUE, !.flowing = FALSE,
                                !.reading = FALSE]
       IN  /\ stream' = s2
           /\ IF res.headSent
              THEN /\ crashed' = TRUE
                   /\ res' = [res EXCEPT !.heads = @ + 1]
                   /\ pc' = "crashed"
              ELSE LET r2 == ExpressSend(res, 500, TextBody("Server Error", 12))
                   IN  /\ crashed' = FALSE
                       /\ res' = r2
                       /\ pc' = PcAfter(s2, r2)
    /\ UNCHANGED <<probe, parked, impl, fs, writes, req, filePath, stat, trace, prev>>

\* A read of the paused read stream reaches the end of the file: what it
\* read stays in the stream's buffer, nothing is emitted, and the descriptor
\* stays open.
StreamBuffered ==
    /\ ~crashed
    /\ pc = "streaming"
    /\ stream.state = "open"
    /\ ~stream.flowing
    /\ stream.reading
    /\ EntryAt(fs, stream.path).kind = "file"
    /\ LET s2 == [stream EXCEPT !.reading = FALSE]
       IN  /\ stream' = s2
           /\ pc' = PcAfter(s2, res)
    /\ UNCHANGED <<probe, parked, impl, fs, writes, req, res, filePath, stat, trace, prev, crashed>>

\* The client disconnects before the response is ended: at any point after
\* the handler's first await.  The handler goes on as if nothing happened
\* (nothing listens for "close").  pipe() unpipes the source of the response
\* and pauses it: the read stream when there is no compressor, else the
\* compressor, into which the read stream goes on reading.
ClientClose ==
    /\ ~crashed
    /\ pc \in {"stat", "stat_index", "notfound", "streaming"}
    /\ ~res.closed
    /\ ~res.ended
    /\ LET r2 == [res EXCEPT !.closed = TRUE]
           s2 == IF pc = "streaming" /\ stream.comp = "none"
                 THEN [stream EXCEPT !.flowing = FALSE]
                 ELSE stream
       IN  /\ res' = r2
           /\ stream' = s2
           /\ pc' = IF pc = "streaming" THEN PcAfter(s2, r2) ELSE pc
    /\ UNCHANGED <<probe, parked, impl, fs, writes, req, filePath, stat, trace, prev, crashed>>

----------------------------------------------------------------------------
(* The environment.                                                        *)

\* Another process rewrites public/a.png: it grows or shrinks by a byte;
\* each write moves its mtime on by half a second.
ExternalWrite ==
    /\ writes < MaxWrites
    /\ ~crashed
    /\ parked.pc = "idle"
    /\ \E delta \in {-1, 1} :
          /\ fs[pPng].size + delta >= 0
          /\ fs' = [fs EXCEPT ![pPng].size = @ + delta, ![pPng].mtimeMs = @ + 500]
    /\ writes' = writes + 1
    /\ UNCHANGED <<probe, parked, impl, pc, req, res, filePath, stat, stream, trace, prev, crashed>>

\* The exchange is over: the client keeps the validators of a complete 200
\* file response (clients whose exchanges overlapped keep none), and the
\* connection is ready for the next request.
ExchangeDone ==
    /\ ~crashed
    /\ pc = "done"
    /\ prev' = IF /\ res.status = 200 /\ res.ended /\ ~res.closed /\ res.body.kind = "stream"
                  /\ parked.pc = "idle"
               THEN [has |-> TRUE, url |-> req.url, etag |-> res.headers["ETag"],
                     lm |-> res.headers["Last-Modified"], file |-> filePath, meta |-> stat]
               ELSE NoPrev
    /\ pc' = "idle"
    /\ req' = NoRequest
    /\ res' = NoResponse
    /\ filePath' = <<>>
    /\ stat' = NoStat
    /\ stream' = NoStream
    /\ trace' = <<>>
    /\ UNCHANGED <<probe, parked, impl, fs, writes, crashed>>

\* The exchange is over and the client keeps nothing of it (the client of the
\* path specification sends no validators).
ExchangeForgotten ==
    /\ ~crashed
    /\ pc = "done"
    /\ prev' = NoPrev
    /\ pc' = "idle"
    /\ req' = NoRequest
    /\ res' = NoResponse
    /\ filePath' = <<>>
    /\ stat' = NoStat
    /\ stream' = NoStream
    /\ trace' = <<>>
    /\ UNCHANGED <<probe, parked, impl, fs, writes, crashed>>

\* The server handles two connections at once: the handler of one request is
\* suspended at an await, or its streams wait for an event, while events of
\* the other are served.  The variables pc .. prev hold the exchange whose
\* event comes next and `parked` holds the other; the two change places
\* here.  They share the file system and the process: once it has died the
\* other exchange stays where it was.  Overlap is explored on the file
\* system as it was at start-up, file changes on one connection.
Switch ==
    /\ writes = 0
    /\ pc = "idle" \/ PlainRequest(req)
    /\ parked.pc = "idle" \/ PlainRequest(parked.req)
    /\ pc # "idle" \/ parked.pc # "idle"
    /\ pc' = parked.pc
    /\ req' = parked.req
    /\ res' = parked.res
    /\ filePath' = parked.filePath
    /\ stat' = parked.stat
    /\ stream' = parked.stream
    /\ trace' = parked.trace
    /\ prev' = parked.prev
    /\ parked' = [pc |-> pc, req |-> req, res |-> res, filePath |-> filePath,
                   stat |-> stat, stream |-> stream, trace |-> trace, prev |-> prev]
    /\ UNCHANGED <<probe, impl, fs, writes, crashed>>

\* const etag = computeEtag(stat), for the two snapshots; the first one is
\* computed twice.
ComputeEtags ==
    /\ ~probe.done
    /\ probe.a.ok
    /\ probe' = [probe EXCEPT !.done = TRUE,
                              !.etagA = computeEtag(probe.a),
                              !.etagA2 = computeEtag(probe.a),
                              !.etagB = computeEtag(probe.b)]
    /\ UNCHANGED <<parked, impl, fs, writes, pc, req, res, filePath, stat, stream, trace, prev, crashed>>

Next ==
    \/ NewRequest
    \/ ExchangeDone
    \/ StatDone
    \/ StatIndexDone
    \/ NotFoundDone
    \/ StreamOpen
    \/ StreamData
    \/ StreamEnd
    \/ StreamBuffered
    \/ CompressorData
    \/ CompressorEnd
    \/ StreamError
    \/ ClientClose
    \/ Switch
    \/ ExternalWrite

\* The pipeline: requests with every header on two connections; requests
\* without optional headers overlap in time.
Spec == Init /\ [][Next]_vars

NextPaths ==
    \/ NewPathRequest
    \/ ExchangeForgotten
    \/ StatDone
    \/ StatIndexDone
    \/ NotFoundDone
    \/ StreamOpen
    \/ StreamData
    \/ StreamEnd
    \/ StreamError
    \/ Switch

\* The pipeline fed with generated request paths, without optional headers.
SpecPaths == Init /\ [][NextPaths]_vars

NextEtag == ComputeEtags

\* The cache validator alone, over pairs of metadata snapshots.
SpecEtag == InitEtag /\ [][NextEtag]_vars

----------------------------------------------------------------------------
(* Vocabulary of the properties.                                           *)

\* The path of a request URL: what precedes the first "?" or "#".
UrlPathOf(url) == SplitFirst(SplitFirst(url, "?"), "#")

\* The path has a ".." segment.
HasTraversal(url) ==
    LET segs == SplitOn(UrlPathOf(url), "/")
    IN  \E i \in 1..Len(segs) : segs[i] = DotDot

\* The path is the root directory or lies under it.
Confined(path) == path = publicDir \/ StartsWith(path, publicDir \o <<"/">>)

\* The paths the request has handed to fs.promises.stat / createReadStream.
PathsUsed(op) == { trace[i][2] : i \in { k \in 1..Len(trace) : trace[k][1] = op } }

----------------------------------------------------------------------------
(* C1 - traversal paths.                                                   *)

\* C1: every request whose path contains a traversal sequence is rejected
\* by safeResolveFromPublic and answered 400; none reaches STAT.
C1_TraversalAlwaysRejected ==
    (pc # "idle" /\ HasTraversal(req.url))
        => (res.status = 400 /\ PathsUsed("stat") = {})

----------------------------------------------------------------------------
(* C2 - confinement.                                                        *)

\* C2 as claimed: every path handed to stat or createReadStream is the root
\* directory or begins with the root directory followed by a separator.
C2_Confinement ==
    \A path \in PathsUsed("stat") \cup PathsUsed("createReadStream") : Confined(path)

----------------------------------------------------------------------------
(* C3 - round trip of the ETag.                                            *)

\* The request in flight repeats the URL of the preceding exchange, which
\* was a complete 200; its If-None-Match is the ETag of that response; and
\* STAT has found the file with the metadata it had then.
RoundTrip ==
    /\ prev.has
    /\ req.url = prev.url
    /\ req.inm = prev.etag
    /\ pc \in {"streaming", "done", "crashed"}
    /\ filePath = prev.file
    /\ stat = prev.meta

\* C3: a second request for the same resource whose If-None-Match is the
\* ETag of the first 200 response gets 304 with an empty body when the
\* file's inode, size and mtime are unchanged, whatever its other headers.
C3_RoundTrip304 ==
    RoundTrip =>
        /\ pc = "done"
        /\ res.status = 304
        /\ res.ended
        /\ res.body = NoBody
        /\ res.sent = 0

\* Such a second request, with an If-Modified-Since that matches nothing and
\* an Accept-Encoding, has been answered 304.
C3_Witness ==
    /\ RoundTrip
    /\ req.ims = LaterDate
    /\ req.ae # NoHeader
    /\ res.status = 304

----------------------------------------------------------------------------
(* C4 - the cache check.                                                   *)

\* STAT has found a regular file and the code after it has run.
FileFound ==
    /\ pc \in {"streaming", "done", "crashed"}
    /\ stat.ok
    /\ ~stat.isDir

\* C4: for a request whose path resolves to an existing file the response is
\* 304 if and only if If-None-Match equals the computed ETag or
\* If-Modified-Since equals the computed Last-Modified string; otherwise the
\* pipeline goes on to BUILD_RESPONSE (it opens the file) and the status is
\* 200, as long as the read stream has not failed.
C4_FreshIff304 ==
    FileFound =>
        LET fresh == \/ req.inm = <<"W/", "sha1">> \o Digits(stat.ino) \o <<"-">> \o Digits(stat.size)
                                  \o <<"-">> \o Digits(stat.mtimeMs)
                     \/ req.ims = <<"utc", stat.mtimeMs \div 1000>>
        IN  /\ res.status = 304 <=> fresh
            /\ ~fresh => /\ PathsUsed("createReadStream") = {filePath}
                         /\ ~stream.failed => res.status = 200
            /\ fresh => PathsUsed("createReadStream") = {}

\* A request with an If-Modified-Since later than the file's mtime, and no
\* If-None-Match, has been answered 200 in full.
C4_Witness ==
    /\ FileFound
    /\ req.ims = LaterDate
    /\ req.inm = NoHeader
    /\ pc = "done"
    /\ res.status = 200
    /\ res.ended

----------------------------------------------------------------------------
(* C5 - the choice of compression.                                         *)

\* The file has been opened for a 200: the compression has been chosen.
Chosen == stream.state # "none"

\* C5: brotli if Accept-Encoding contains "br", else gzip if it contains
\* "gzip", else deflate if it contains "deflate", else none; an absent or
\* empty header gives none; "gzip, br" gives brotli and "gzip" gives gzip.
C5_CompressionPriority ==
    Chosen =>
        LET hasBr == Includes(req.ae, <<"b", "r">>)
            hasGzip == Includes(req.ae, <<"g", "z", "i", "p">>)
            hasDeflate == Includes(req.ae, <<"d", "e", "f", "l", "a", "t", "e">>)
        IN  /\ stream.enc \in {"br", "gzip", "deflate", NoCompression}
            /\ stream.enc = "br" <=> hasBr
            /\ stream.enc = "gzip" <=> (~hasBr /\ hasGzip)
            /\ stream.enc = "deflate" <=> (~hasBr /\ ~hasGzip /\ hasDeflate)
            /\ stream.enc = NoCompression <=> (~hasBr /\ ~hasGzip /\ ~hasDeflate)
            /\ req.ae = NoHeader => stream.enc = NoCompression
            /\ req.ae = <<"g", "z", "i", "p", ",", " ", "b", "r">> => stream.enc = "br"
            /\ req.ae = <<"g", "z", "i", "p">> => stream.enc = "gzip"
            /\ req.ae = <<"d", "e", "f", "l", "a", "t", "e", ",", " ", "g", "z", "i", "p">>
                  => stream.enc = "gzip"
            /\ req.ae = <<"b", "r">> => stream.enc = "br"

\* "gzip, br" was sent and brotli was chosen.
C5_Witness ==
    /\ Chosen
    /\ req.ae = <<"g", "z", "i", "p", ",", " ", "b", "r">>
    /\ stream.enc = "br"
    /\ stream.comp = "open"

----------------------------------------------------------------------------
(* C6 - Content-Length or Content-Encoding.                                *)

\* The response is a 200 whose body is the file.
FileResponse200 == res.status = 200 /\ res.body.kind = "stream"

\* C6: a 200 file response carries exactly one of Content-Length and
\* Content-Encoding: without compression, Content-Length equal to the size
\* read at STAT; with compression, Content-Encoding equal to the token of
\* the algorithm chosen.
C6_LengthXorEncoding ==
    FileResponse200 =>
        /\ (res.headers["Content-Length"] = NoHeader)
              # (res.headers["Content-Encoding"] = NoHeader)
        /\ stream.enc = NoCompression =>
              /\ res.headers["Content-Length"] = <<stat.size>>
              /\ res.headers["Content-Encoding"] = NoHeader
        /\ stream.enc # NoCompression =>
              /\ res.headers["Content-Encoding"] = <<stream.enc>>
              /\ stream.enc \in {"br", "gzip", "deflate"}
              /\ res.headers["Content-Length"] = NoHeader

\* A compressed 200 has been delivered in full.
C6_Witness ==
    /\ FileResponse200
    /\ res.ended
    /\ res.headers["Content-Encoding"] = <<"deflate">>
    /\ res.headers["Content-Length"] = NoHeader

----------------------------------------------------------------------------
(* C7 - Cache-Control.                                                     *)

\* C7: a 200 file response carries Cache-Control "no-cache" when the content
\* type of the served file is an HTML type, and "public, max-age=3600,
\* immutable" for every other type, application/octet-stream included.
C7_CacheControl ==
    FileResponse200 =>
        /\ res.headers["Content-Type"] # NoHeader
        /\ res.headers["Cache-Control"] =
              IF ToLowerCase(extname(filePath)) = <<".", "h", "t", "m", "l">>
              THEN <<"no-cache">>
              ELSE <<"public, max-age=3600, immutable">>
        /\ res.headers["Content-Type"] = <<TextHtml>>
              <=> res.headers["Cache-Control"] = <<"no-cache">>

\* An HTML page has been delivered with no-cache.
C7_Witness ==
    /\ FileResponse200
    /\ res.ended
    /\ filePath = pIndex
    /\ res.headers["Content-Type"] = <<TextHtml>>
    /\ res.headers["Cache-Control"] = <<"no-cache">>

----------------------------------------------------------------------------
(* C8 - the 404 path.                                                      *)

\* STAT has failed: the handler went on to read 404.html.
StatFailed == \E i \in 1..Len(trace) : trace[i][1] = "readFile"

\* The number of calls of fs.promises.stat made for the request.
StatCalls == Cardinality({ i \in 1..Len(trace) : trace[i][1] = "stat" })

\* C8: when STAT fails the request ends with 404 and STAT is not retried
\* (no path is statted twice, nothing is statted after the failure); the
\* body is the content of 404.html with an HTML content type when that file
\* can be read, and the generic message sent as plain text otherwise; the
\* requested file is never opened.
C8_NotFound ==
    StatFailed =>
        /\ pc \in {"notfound", "done"}
        /\ trace[Len(trace)] = <<"readFile", pNotFound>>
        /\ StatCalls = Cardinality(PathsUsed("stat"))
        /\ StatCalls <= 2
        /\ PathsUsed("createReadStream") = {}
        /\ stream = NoStream
        /\ pc = "done" =>
              /\ res.status = 404
              /\ res.ended
              /\ IF fs[pNotFound].kind = "file"
                 THEN /\ res.body = BufferBody(pNotFound, fs[pNotFound].size)
                      /\ res.headers["Content-Type"] = <<TextHtml>>
                 ELSE /\ res.body = TextBody("404 Not Found", 13)
                      /\ res.headers["Content-Type"] = <<TextPlain>>

----------------------------------------------------------------------------
(* C9 - error responses and validators.                                    *)

\* C9 as claimed: no response with status 400, 404 or 500 carries an ETag or
\* a Last-Modified header.
C9_ErrorsCarryNoValidators ==
    res.status \in {400, 404, 500} =>
        /\ res.headers["ETag"] = NoHeader
        /\ res.headers["Last-Modified"] = NoHeader

----------------------------------------------------------------------------
(* C10 - the directory request.                                            *)

\* The request is for "/", with or without a query string or a fragment, and
\* index.html exists under the root.
RootRequest ==
    /\ pc # "idle"
    /\ req.url \in {uRoot, uRootQuery, uRootFragment}
    /\ fs[pIndex].kind = "file"

\* C10: a request for "/" (also followed by a query string or a fragment),
\* when index.html exists under the root, is served that file: it is the
\* path statted, the request neither is rejected nor ends on the 404 path,
\* and the response, 200 unless a validator matched (304) or the read stream
\* failed, carries the HTML content type and Cache-Control: no-cache.
C10_RootServesIndex ==
    RootRequest =>
        /\ trace # <<>>
        /\ trace[1] = <<"stat", pIndex>>
        /\ pc # "notfound"
        /\ res.status \notin {400, 404}
        /\ pc \in {"streaming", "done", "crashed"} =>
              /\ filePath = pIndex
              /\ (req.inm = NoHeader /\ req.ims = NoHeader /\ ~stream.failed)
                    => res.status = 200
              /\ res.status = 200 =>
                    /\ res.body = StreamBody(pIndex)
                    /\ res.headers["Content-Type"] = <<TextHtml>>
                    /\ res.headers["Cache-Control"] = <<"no-cache">>

\* "/?v=1" has been answered with index.html in full.
C10_Witness ==
    /\ RootRequest
    /\ req.url = uRootQuery
    /\ pc = "done"
    /\ res.status = 200
    /\ res.ended
    /\ res.body = StreamBody(pIndex)

----------------------------------------------------------------------------
(* C11 - Content-Type of a file response.                                  *)

\* The name ends with the extension, which is not the whole base name.
HasExtension(path, ext) ==
    /\ Len(path) > Len(ext) + 1
    /\ SubSeq(path, Len(path) - Len(ext) + 1, Len(path)) = ext
    /\ path[Len(path) - Len(ext)] # "/"

\* The table entry of the extension the lower-cased name ends with, and the
\* generic binary type when it ends with none of the table.
TypeByTable(path) ==
    LET lower == ToLowerCase(path)
        known == { ext \in DOMAIN contentTypes : HasExtension(lower, ext) }
    IN  IF known = {} THEN OctetStream ELSE contentTypes[CHOOSE ext \in known : TRUE]

\* C11: a request without If-None-Match / If-Modified-Since whose path
\* resolves inside the root to an existing regular file is answered 200
\* (unless the read stream fails) with the Content-Type the table gives for
\* the file's extension compared case-insensitively: image/png for a.png and
\* for LOGO.PNG, text/html for index.html; application/octet-stream for a
\* file without extension.
C11_ContentType ==
    (FileFound /\ Confined(filePath) /\ req.inm = NoHeader /\ req.ims = NoHeader
       /\ ~stream.failed) =>
        /\ res.status = 200
        /\ res.headers["Content-Type"] = <<TypeByTable(filePath)>>
        /\ filePath \in {pPng, pLogo} => res.headers["Content-Type"] = <<"image/png">>
        /\ filePath = pIndex => res.headers["Content-Type"] = <<TextHtml>>
        /\ filePath = pNotes => res.headers["Content-Type"] = <<OctetStream>>

\* LOGO.PNG has been served in full as image/png, and so has the file
\* without extension as application/octet-stream (one or the other).
C11_Witness ==
    /\ pc = "done"
    /\ res.ended
    /\ res.status = 200
    /\ req.inm = NoHeader /\ req.ims = NoHeader
    /\ \/ filePath = pLogo /\ res.headers["Content-Type"] = <<"image/png">>
       \/ filePath = pNotes /\ res.headers["Content-Type"] = <<OctetStream>>

----------------------------------------------------------------------------
(* C12 - the ETag as a function of the metadata.                           *)

\* C12: the ETag is a function of (inode, size, mtime): computed twice for
\* the same snapshot it is the same string, identical snapshots have
\* identical ETags, and snapshots that differ in size or in modification
\* time have different ETags (the hash taken as injective).
C12_EtagFunctionOfMetadata ==
    probe.done =>
        /\ probe.etagA = probe.etagA2
        /\ probe.a = probe.b => probe.etagA = probe.etagB
        /\ (probe.a.size # probe.b.size \/ probe.a.mtimeMs # probe.b.mtimeMs)
              => probe.etagA # probe.etagB

\* ETags were computed for inode 1 with size 11 and inode 11 with size 1,
\* same mtime: the digits of the two snapshots are the same in a row.
C12_Witness ==
    /\ probe.done
    /\ probe.a.ino = 1 /\ probe.a.size = 11
    /\ probe.b.ino = 11 /\ probe.b.size = 1
    /\ probe.a.mtimeMs = probe.b.mtimeMs
    /\ probe.etagA # probe.etagB

----------------------------------------------------------------------------
(* C13 - a directory whose index.html is a directory.                      *)

\* The calls of fs.promises.stat made for the request, in order.
StatTrace == SelectSeq(trace, LAMBDA e : e[1] = "stat")

\* The second STAT has settled and found a directory.
IndexIsDirectory ==
    /\ Len(StatTrace) = 2
    /\ pc # "stat_index"
    /\ EntryAt(fs, StatTrace[2][2]).kind = "dir"

\* C13: for a directory, STAT is repeated once on <directory>/index.html
\* and no more; when that is a directory too the request takes the 404 path
\* and reaches neither the cache check, nor the 200, nor the read stream.
C13_DirectoryIndexIsNotFound ==
    /\ Len(StatTrace) <= 2
    /\ Len(StatTrace) = 2 =>
          /\ EntryAt(fs, StatTrace[1][2]).kind = "dir"
          /\ StatTrace[2][2] = join(StatTrace[1][2], sIndexHtml)
    /\ IndexIsDirectory =>
          /\ pc \in {"notfound", "done"}
          /\ pc = "done" => res.status = 404
          /\ PathsUsed("createReadStream") = {}
          /\ stream = NoStream

----------------------------------------------------------------------------
(* C14 - a read error during STREAM.                                       *)

\* C14: after a read error the response is a 500 whose head is the only one
\* written, or, when the 200 head was out already, the response is aborted;
\* the handler never asks for a 500 head after the 200 head was written.
C14_ReadErrorSignalled ==
    stream.failed =>
        IF res.status = 500
        THEN res.heads = 1 /\ res.ended /\ ~crashed
        ELSE res.closed /\ res.heads = 1 /\ ~crashed

----------------------------------------------------------------------------
(* C15 - release of the read stream and the compressor.                    *)

\* C15: a request that is over (completed, failed on a read error, or
\* abandoned by the client) has neither its read stream nor its compressor
\* open.
C15_ResourcesReleased ==
    pc = "done" =>
        /\ stream.state \in {"none", "closed"}
        /\ stream.comp \in {"none", "closed"}

----------------------------------------------------------------------------
(* C16 - order of the steps.                                               *)

\* C16: the file is opened only after STAT of that very path has settled
\* with success and the cache check on its result has said "not fresh";
\* the opening is the last file-system call of the request; a request that
\* ends in 400, 404 or 304 has opened no file and created no compressor.
C16_StepOrder ==
    /\ \A i \in 1..Len(trace) :
          trace[i][1] = "createReadStream" =>
              /\ i = Len(trace)
              /\ i > 1
              /\ trace[i - 1] = <<"stat", trace[i][2]>>
              /\ stat.ok
              /\ ~(req.inm = computeEtag(stat) \/ req.ims = toUTCString(stat.mtimeMs))
              /\ res.status \notin {304, 400, 404}
    /\ stream # NoStream => PathsUsed("createReadStream") = {stream.path}
    /\ res.status \in {304, 400, 404} =>
          /\ PathsUsed("createReadStream") = {}
          /\ stream = NoStream

\* A 304 went out after one STAT, with no file opened and no compressor,
\* to a client that accepts gzip.
C16_Witness ==
    /\ pc = "done"
    /\ res.status = 304
    /\ StatCalls = 1
    /\ req.ae = <<"g", "z", "i", "p">>
    /\ PathsUsed("createReadStream") = {}
    /\ stream = NoStream

----------------------------------------------------------------------------
(* C17 - the 304 response.                                                 *)

\* C17: a 304 response has no body and none of the headers Content-Type,
\* Content-Length, Content-Encoding, Cache-Control, ETag, Last-Modified.
C17_NotModifiedIsBare ==
    res.status = 304 =>
        /\ res.body = NoBody
        /\ res.sent = 0
        /\ \A h \in HeaderNames : res.headers[h] = NoHeader

\* A 304 answered to If-Modified-Since alone, in the express variant.
C17_Witness ==
    /\ impl = "express"
    /\ pc = "done"
    /\ res.status = 304
    /\ res.ended
    /\ req.inm = NoHeader
    /\ req.ims = prev.lm
    /\ prev.has

----------------------------------------------------------------------------
(* C18 - one head, one end.                                                *)

\* C18: the handler and the listeners of the read stream write the head of
\* a response, or ask to, at most once.
C18_HeadWrittenOnce == res.heads <= 1

----------------------------------------------------------------------------
(* C19 - every request ends.                                               *)

\* A request is over when no event of it is pending: the handler has
\* returned and neither the read stream nor the compressor will emit
\* anything more (pc = "done"), or the process has died in a listener of
\* this request (pc = "crashed") or of the other one (crashed).
RequestOver == pc \in {"done", "crashed"} \/ crashed

\* C19: a request that is over has had its response ended or aborted.
\* (Every other position of a request has an I/O event pending, which fair
\* scheduling delivers; so this is what remains of "eventually ended".)
C19_OverMeansEnded == RequestOver => (res.ended \/ res.closed)

----------------------------------------------------------------------------
(* C20 - Content-Length and the bytes delivered.                           *)

\* C20: a 200 response without compression that has been ended delivered
\* as many body bytes as its Content-Length says.
C20_LengthMatchesBody ==
    (FileResponse200 /\ res.ended /\ res.headers["Content-Length"] # NoHeader)
        => res.headers["Content-Length"] = <<res.sent>>

====
